---- MODULE Spec2Model ----
(***************************************************************************)
(* Model of the Avro schema registry (package avro, SchemaRegistry).       *)
(*                                                                         *)
(* The registry keeps three maps and a counter behind one sync.RWMutex:    *)
(*   schemas             id      -> SchemaMetadata                         *)
(*   subjectSchemas      subject -> list of ids (the version ledger)       *)
(*   compatibilityLevels subject -> CompatibilityLevel                     *)
(*   nextSchemaID        the next id to hand out                           *)
(*                                                                         *)
(* Spec     : one caller; every exported method is one atomic action.      *)
(* SpecConc : several callers; every method is split at its lock, its      *)
(*            reads and its writes, and the RWMutex is modelled.           *)
(***************************************************************************)
EXTENDS Integers, Sequences, FiniteSets, TLC

\* ------------------------------------------------------------------ bounds
\* The most records the registry may hold (caps nextSchemaID).
MaxRecords == 3
\* SpecConc: the number of concurrent callers (goroutines); each makes one call.
NumProcs == 3

\* ------------------------------------------------------------------ inputs
Subjects == {"order", "user"}

\* Schema source texts handed to RegisterSchema / CheckCompatibility:
\*  orderA  {"type":"record","name":"order","fields":[id:int, amount:float]}
\*  orderB  orderA plus currency:string with default "USD"
\*  orderC  orderB without amount
\*  orderD  orderA with amount:bytes (other content, same length as orderA)
\*  orderAws orderA with a space after the first colon (same canonical form)
\*  statusE {"type":"enum","name":"status","symbols":["NEW","PAID"]}
\*  bad     {"type":"record"      (truncated, does not parse)
Sources == {"orderA", "orderB", "orderC", "orderD", "statusE", "bad"}
\* Sources submitted on "user" only.
UserSources == {"orderA", "orderAws"}

\* len(schemaJSON) of each source text, in bytes.
SchemaLen(schemaJSON) ==
    CASE schemaJSON = "orderA"  -> 103
      [] schemaJSON = "orderB"  -> 155
      [] schemaJSON = "orderC"  -> 122
      [] schemaJSON = "orderD"  -> 103
      [] schemaJSON = "orderAws" -> 104
      [] schemaJSON = "statusE" -> 56
      [] schemaJSON = "bad"     -> 16

\* The fields of a record schema: name -> whether the field has a default.
SchemaFields(schemaJSON) ==
    CASE schemaJSON = "orderA"  -> [id |-> FALSE, amount |-> FALSE]
      [] schemaJSON = "orderB"  -> [id |-> FALSE, amount |-> FALSE, currency |-> TRUE]
      [] schemaJSON = "orderC"  -> [id |-> FALSE, currency |-> TRUE]
      [] schemaJSON = "orderD"  -> [id |-> FALSE, amount |-> FALSE]
      [] schemaJSON = "orderAws" -> [id |-> FALSE, amount |-> FALSE]
      [] OTHER                  -> << >>

\* avro.Parse: the parsed handle (Type() and the canonical String()) or an error.
Parse(schemaJSON) ==
    CASE schemaJSON = "orderA"  -> [ok |-> TRUE, type |-> "record", str |-> "order{id:int,amount:float}"]
      [] schemaJSON = "orderB"  -> [ok |-> TRUE, type |-> "record", str |-> "order{id:int,amount:float,currency:string}"]
      [] schemaJSON = "orderC"  -> [ok |-> TRUE, type |-> "record", str |-> "order{id:int,currency:string}"]
      [] schemaJSON = "orderD"  -> [ok |-> TRUE, type |-> "record", str |-> "order{id:int,amount:bytes}"]
      [] schemaJSON = "orderAws" -> [ok |-> TRUE, type |-> "record", str |-> "order{id:int,amount:float}"]
      [] schemaJSON = "statusE" -> [ok |-> TRUE, type |-> "enum", str |-> "status[NEW,PAID]"]
      [] schemaJSON = "bad"     -> [ok |-> FALSE, type |-> "", str |-> ""]

CompatibilityNone     == "NONE"
CompatibilityFull     == "FULL"
CompatibilityForward  == "FORWARD"
CompatibilityBackward == "BACKWARD"
Levels == {CompatibilityNone, CompatibilityFull, CompatibilityForward, CompatibilityBackward}

\* The (subject, source) pairs callers submit, and the (subject, level) pairs they set.
SchemaInputs ==
    ({"order"} \X Sources) \cup ({"user"} \X UserSources)
LevelInputs ==
    ({"order"} \X Levels) \cup ({"user"} \X {CompatibilityNone})

\* error values
Nil            == "nil"
ErrInvalid     == "invalid schema"
ErrCompat      == "schema compatibility check failed"
ErrTypes       == "schema types don't match"
ErrNotFound    == "not found"

\* ------------------------------------------------------------------- state
VARIABLES
    schemas,              \* map[int]SchemaMetadata
    subjectSchemas,       \* map[string][]int
    nextSchemaID,         \* int
    compatibilityLevels,  \* map[string]CompatibilityLevel
    ret,                  \* Spec: the last call, what it returned, and whether it
                          \*       repeated a RegisterSchema that had succeeded before
    okReg,                \* Spec: (subject, source) -> id of every successful RegisterSchema so far
    mu,                   \* SpecConc: the sync.RWMutex
    pc,                   \* SpecConc: where each caller stands in its method
    call,                 \* SpecConc: the method each caller runs and its arguments
    loc,                  \* SpecConc: the local variables of each caller's method
    res                   \* SpecConc: what each caller's call returned

regvars == <<schemas, subjectSchemas, nextSchemaID, compatibilityLevels>>
seqvars == <<ret, okReg>>
concvars == <<mu, pc, call, loc, res>>
vars == <<schemas, subjectSchemas, nextSchemaID, compatibilityLevels, ret, okReg,
          mu, pc, call, loc, res>>

\* A Go map write m[k] = v.
MapPut(m, k, v) == [x \in DOMAIN m \cup {k} |-> IF x = k THEN v ELSE m[x]]

\* sr.subjectSchemas[subject] read without the "exists" flag: nil slice when absent.
Ledger(subject) ==
    IF subject \in DOMAIN subjectSchemas THEN subjectSchemas[subject] ELSE << >>

\* fmt.Sprintf("fp_%s_%d", subject, len(schemaJSON))
Fingerprint(subject, schemaJSON) == <<"fp", subject, SchemaLen(schemaJSON)>>

\* A duplicate test over the records of every subject.
FindFingerprintAnySubject(subject, fingerprint) ==
    LET hits == {i \in DOMAIN schemas : schemas[i].Fingerprint[3] = fingerprint[3]}
    IN IF hits = {} THEN 0
       ELSE CHOOSE i \in hits : \A j \in hits : i <= j

\* A duplicate test that looks at the latest version only.
FindFingerprintLatestOnly(subject, fingerprint) ==
    LET ids == Ledger(subject)
    IN IF Len(ids) > 0 /\ schemas[ids[Len(ids)]].Fingerprint = fingerprint
       THEN ids[Len(ids)] ELSE 0

\* A registry without the duplicate loop.
FindFingerprintNever(subject, fingerprint) == 0

\* The loop over the subject's ids: the first id whose Fingerprint matches, else 0.
FindFingerprint(subject, fingerprint) ==
    LET ids == Ledger(subject)
        hits == {i \in 1..Len(ids) : schemas[ids[i]].Fingerprint = fingerprint}
    IN IF hits = {} THEN 0
       ELSE ids[CHOOSE i \in hits : \A j \in hits : i <= j]

checkForwardCompatibility(oldSchema, newSchema) ==
    IF oldSchema.type # newSchema.type THEN ErrTypes
    ELSE IF oldSchema.str = newSchema.str THEN Nil
    ELSE Nil

\* A backward check that accepts every candidate.
checkBackwardCompatibilityAcceptAll(oldSchema, newSchema) == Nil

checkBackwardCompatibility(oldSchema, newSchema) ==
    IF oldSchema.type # newSchema.type THEN ErrTypes
    ELSE IF oldSchema.str = newSchema.str THEN Nil
    ELSE Nil

\* A check for which a subject without entry has no policy.
EffectiveLevelDefaultNone(subject) ==
    IF subject \in DOMAIN compatibilityLevels
    THEN compatibilityLevels[subject] ELSE CompatibilityNone

\* The level checkCompatibility works with: the subject's entry, else BACKWARD.
EffectiveLevel(subject) ==
    IF subject \in DOMAIN compatibilityLevels
    THEN compatibilityLevels[subject] ELSE CompatibilityBackward

\* A check without the early return for level NONE.
checkCompatibilityNoNone(subject, newSchema) ==
    LET schemaIDs == Ledger(subject)
    IN IF Len(schemaIDs) = 0 THEN Nil
       ELSE LET latestSchema == Parse(schemas[schemaIDs[Len(schemaIDs)]].SchemaJSON)
            IN CASE EffectiveLevel(subject) = CompatibilityForward ->
                        checkForwardCompatibility(latestSchema, newSchema)
                 [] EffectiveLevel(subject) = CompatibilityFull ->
                        IF checkForwardCompatibility(latestSchema, newSchema) # Nil
                        THEN checkForwardCompatibility(latestSchema, newSchema)
                        ELSE checkBackwardCompatibility(latestSchema, newSchema)
                 [] OTHER -> checkBackwardCompatibility(latestSchema, newSchema)

\* A check that treats "nothing to compare against" as a failure.
checkCompatibilityNeedsLatest(subject, newSchema) ==
    LET compatibilityLevel == EffectiveLevel(subject)
        schemaIDs == Ledger(subject)
    IN IF compatibilityLevel = CompatibilityNone THEN Nil
       ELSE IF Len(schemaIDs) = 0 THEN ErrNotFound
       ELSE LET latestSchema == Parse(schemas[schemaIDs[Len(schemaIDs)]].SchemaJSON)
            IN CASE compatibilityLevel = CompatibilityForward ->
                        checkForwardCompatibility(latestSchema, newSchema)
                 [] compatibilityLevel = CompatibilityBackward ->
                        checkBackwardCompatibility(latestSchema, newSchema)
                 [] compatibilityLevel = CompatibilityFull ->
                        IF checkForwardCompatibility(latestSchema, newSchema) # Nil
                        THEN checkForwardCompatibility(latestSchema, newSchema)
                        ELSE checkBackwardCompatibility(latestSchema, newSchema)
                 [] OTHER -> Nil

checkCompatibility(subject, newSchema) ==
    LET compatibilityLevel == EffectiveLevel(subject)
        schemaIDs == Ledger(subject)
    IN IF compatibilityLevel = CompatibilityNone THEN Nil
       ELSE IF Len(schemaIDs) = 0 THEN Nil
       ELSE LET latestID == schemaIDs[Len(schemaIDs)]
                latestSchema == Parse(schemas[latestID].SchemaJSON)
            IN CASE compatibilityLevel = CompatibilityForward ->
                        checkForwardCompatibility(latestSchema, newSchema)
                 [] compatibilityLevel = CompatibilityBackward ->
                        checkBackwardCompatibility(latestSchema, newSchema)
                 [] compatibilityLevel = CompatibilityFull ->
                        IF checkForwardCompatibility(latestSchema, newSchema) # Nil
                        THEN checkForwardCompatibility(latestSchema, newSchema)
                        ELSE checkBackwardCompatibility(latestSchema, newSchema)
                 [] OTHER -> Nil

\* The SchemaMetadata literal of RegisterSchema (Schema is Parse(SchemaJSON)).
NewMetadata(schemaID, version, subject, schemaJSON, fingerprint) ==
    [ID |-> schemaID, Version |-> version, Subject |-> subject,
     SchemaJSON |-> schemaJSON, Fingerprint |-> fingerprint]

\* SchemaMetadata{} : the zero value the getters return with an error.
ZeroMetadata ==
    [ID |-> 0, Version |-> 0, Subject |-> "", SchemaJSON |-> "", Fingerprint |-> << >>]

\* Spec: the return values of a call (id, bool or metadata, and the error),
\* all zero before the first call.
\* The map GetStats builds (ListSubjects' slice is its "subjects" entry).
NoStats == [total_schemas |-> 0, total_subjects |-> 0, next_schema_id |-> 0,
            subjects |-> {}, schemas_per_subject |-> << >>]

NoReturn ==
    [op |-> "NewSchemaRegistry", id |-> 0, ok |-> FALSE, meta |-> ZeroMetadata,
     err |-> Nil, again |-> FALSE, subject |-> "", level |-> "", versions |-> << >>,
     subjects |-> {}, stats |-> NoStats]

\* A registration that checks compatibility before it looks for a duplicate.
RegisterDecisionCheckFirst(subject, schemaJSON) ==
    LET schema == Parse(schemaJSON)
        existing == FindFingerprint(subject, Fingerprint(subject, schemaJSON))
    IN IF ~schema.ok THEN [kind |-> "error", id |-> 0, err |-> ErrInvalid]
       ELSE IF checkCompatibility(subject, schema) # Nil
            THEN [kind |-> "error", id |-> 0, err |-> ErrCompat]
       ELSE IF existing # 0 THEN [kind |-> "existing", id |-> existing, err |-> Nil]
       ELSE [kind |-> "new", id |-> nextSchemaID, err |-> Nil]

\* What RegisterSchema decides before it writes: an error, an existing id, or "new".
RegisterDecision(subject, schemaJSON) ==
    LET schema == Parse(schemaJSON)
        fingerprint == Fingerprint(subject, schemaJSON)
        existing == FindFingerprint(subject, fingerprint)
    IN IF ~schema.ok THEN [kind |-> "error", id |-> 0, err |-> ErrInvalid]
       ELSE IF existing # 0 THEN [kind |-> "existing", id |-> existing, err |-> Nil]
       ELSE IF checkCompatibility(subject, schema) # Nil
            THEN [kind |-> "error", id |-> 0, err |-> ErrCompat]
       ELSE [kind |-> "new", id |-> nextSchemaID, err |-> Nil]

\* A version taken from the global counter instead of the subject's ledger.
NextVersionGlobal(subject) == nextSchemaID

\* version := len(sr.subjectSchemas[subject]) + 1
NextVersion(subject) == Len(Ledger(subject)) + 1

\* A store that puts the new id at the head of the ledger.
StoreMetadataPrepend(subject, metadata) ==
    /\ schemas' = MapPut(schemas, metadata.ID, metadata)
    /\ subjectSchemas' = MapPut(subjectSchemas, subject, <<metadata.ID>> \o Ledger(subject))

\* A store that assigns the ledger instead of appending to it.
StoreMetadataReplace(subject, metadata) ==
    /\ schemas' = MapPut(schemas, metadata.ID, metadata)
    /\ subjectSchemas' = MapPut(subjectSchemas, subject, <<metadata.ID>>)

\* sr.schemas[schemaID] = metadata; sr.subjectSchemas[subject] = append(..., schemaID)
StoreMetadata(subject, metadata) ==
    /\ schemas' = MapPut(schemas, metadata.ID, metadata)
    /\ subjectSchemas' = MapPut(subjectSchemas, subject, Append(Ledger(subject), metadata.ID))

\* Ids counted per subject instead of registry-wide.
StoreNewPerSubjectID(subject, schemaJSON) ==
    /\ nextSchemaID' = nextSchemaID + 1
    /\ StoreMetadata(subject, NewMetadata(NextVersion(subject), NextVersion(subject), subject,
                                          schemaJSON, Fingerprint(subject, schemaJSON)))

\* The writes of a registration that creates a record.
StoreNew(subject, schemaJSON) ==
    /\ nextSchemaID' = nextSchemaID + 1
    /\ StoreMetadata(subject, NewMetadata(nextSchemaID, NextVersion(subject), subject,
                                          schemaJSON, Fingerprint(subject, schemaJSON)))

\* ------------------------------------------------------ results of the reads
GetSchemaResult(schemaID) ==
    IF schemaID \in DOMAIN schemas
    THEN [val |-> schemas[schemaID], err |-> Nil]
    ELSE [val |-> ZeroMetadata, err |-> ErrNotFound]

\* A getter that counts the versions from the end of the ledger.
GetSchemaVersionResultReversed(subject, version) ==
    LET schemaIDs == Ledger(subject)
    IN IF subject \notin DOMAIN subjectSchemas \/ version < 1 \/ version > Len(schemaIDs)
       THEN [val |-> ZeroMetadata, err |-> ErrNotFound]
       ELSE [val |-> schemas[schemaIDs[Len(schemaIDs) - version + 1]], err |-> Nil]

GetSchemaVersionResult(subject, version) ==
    LET schemaIDs == Ledger(subject)
    IN IF subject \notin DOMAIN subjectSchemas \/ version < 1 \/ version > Len(schemaIDs)
       THEN [val |-> ZeroMetadata, err |-> ErrNotFound]
       ELSE [val |-> schemas[schemaIDs[version]], err |-> Nil]

\* A getter that takes the first entry of the ledger.
GetLatestSchemaResultFirst(subject) ==
    IF subject \notin DOMAIN subjectSchemas \/ Len(Ledger(subject)) = 0
    THEN [val |-> ZeroMetadata, err |-> ErrNotFound]
    ELSE [val |-> schemas[Ledger(subject)[1]], err |-> Nil]

GetLatestSchemaResult(subject) ==
    LET schemaIDs == Ledger(subject)
        latestID == schemaIDs[Len(schemaIDs)]
    IN IF subject \notin DOMAIN subjectSchemas \/ Len(schemaIDs) = 0
       THEN [val |-> ZeroMetadata, err |-> ErrNotFound]
       ELSE [val |-> IF latestID \in DOMAIN schemas THEN schemas[latestID] ELSE ZeroMetadata,
             err |-> Nil]

\* The slice ListSubjects builds, in no particular order.
ListSubjectsResult == DOMAIN subjectSchemas

\* A listing of the ledger's ids instead of the records' version numbers.
ListSchemaVersionsResultIDs(subject) ==
    IF subject \notin DOMAIN subjectSchemas
    THEN [val |-> << >>, err |-> ErrNotFound]
    ELSE [val |-> subjectSchemas[subject], err |-> Nil]

ListSchemaVersionsResult(subject) ==
    IF subject \notin DOMAIN subjectSchemas
    THEN [val |-> << >>, err |-> ErrNotFound]
    ELSE [val |-> [i \in 1..Len(subjectSchemas[subject]) |->
                     IF subjectSchemas[subject][i] \in DOMAIN schemas
                     THEN schemas[subjectSchemas[subject][i]].Version ELSE 0],
          err |-> Nil]

GetCompatibilityLevelResult(subject) ==
    IF subject \in DOMAIN compatibilityLevels
    THEN compatibilityLevels[subject]
    ELSE CompatibilityBackward

\* Statistics that count the subjects of the level table.
GetStatsResultCountsLevels ==
    [total_schemas |-> Cardinality(DOMAIN schemas),
     total_subjects |-> Cardinality(DOMAIN compatibilityLevels),
     next_schema_id |-> nextSchemaID,
     subjects |-> ListSubjectsResult,
     schemas_per_subject |-> [s \in DOMAIN subjectSchemas |-> Len(subjectSchemas[s])]]

GetStatsResult ==
    [total_schemas |-> Cardinality(DOMAIN schemas),
     total_subjects |-> Cardinality(DOMAIN subjectSchemas),
     next_schema_id |-> nextSchemaID,
     subjects |-> ListSubjectsResult,
     schemas_per_subject |-> [s \in DOMAIN subjectSchemas |-> Len(subjectSchemas[s])]]

CheckCompatibilityResult(subject, schemaJSON) ==
    LET schema == Parse(schemaJSON)
    IN IF ~schema.ok THEN [val |-> FALSE, err |-> ErrInvalid]
       ELSE [val |-> checkCompatibility(subject, schema) = Nil, err |-> Nil]

\* ------------------------------------------------------------------ Spec
Procs == 1..NumProcs
NoCall == [op |-> "none", subject |-> "", schemaJSON |-> "", level |-> ""]
NoLocals == [compatibilityLevel |-> "", latestID |-> -1, schemaID |-> 0, version |-> 0]
NoResult == [id |-> 0, ok |-> FALSE, err |-> Nil, meta |-> ZeroMetadata, stats |-> NoStats]

InitRegistry ==
    /\ schemas = << >>
    /\ subjectSchemas = << >>
    /\ nextSchemaID = 1
    /\ compatibilityLevels = << >>

InitCallers ==
    /\ ret = NoReturn
    /\ okReg = << >>
    /\ mu = [w |-> 0, held |-> FALSE, r |-> [p \in Procs |-> 0]]
    /\ pc = [p \in Procs |-> "idle"]
    /\ call = [p \in Procs |-> NoCall]
    /\ loc = [p \in Procs |-> NoLocals]
    /\ res = [p \in Procs |-> NoResult]

Init == InitRegistry /\ InitCallers

\* A registration that takes its id before it validates: a rejected call burns an id.
RegisterSchemaEarlyID(subject, schemaJSON) ==
    LET d == RegisterDecision(subject, schemaJSON)
    IN /\ nextSchemaID <= MaxRecords
       /\ IF d.kind = "new"
          THEN StoreNew(subject, schemaJSON)
          ELSE /\ nextSchemaID' = IF d.err # Nil THEN nextSchemaID + 1 ELSE nextSchemaID
               /\ UNCHANGED <<schemas, subjectSchemas>>
       /\ UNCHANGED compatibilityLevels
       /\ ret' = [NoReturn EXCEPT !.op = "RegisterSchema", !.id = d.id, !.err = d.err,
                                 !.again = <<subject, schemaJSON>> \in DOMAIN okReg]
       /\ okReg' = IF d.err = Nil /\ <<subject, schemaJSON>> \notin DOMAIN okReg
                   THEN MapPut(okReg, <<subject, schemaJSON>>, d.id)
                   ELSE okReg
       /\ UNCHANGED concvars

\* A registration that creates the subject's ledger before it validates.
RegisterSchemaEarlySubject(subject, schemaJSON) ==
    LET d == RegisterDecision(subject, schemaJSON)
    IN /\ d.kind = "new" => nextSchemaID <= MaxRecords
       /\ IF d.kind = "new"
          THEN StoreNew(subject, schemaJSON)
          ELSE /\ subjectSchemas' = MapPut(subjectSchemas, subject, Ledger(subject))
               /\ UNCHANGED <<schemas, nextSchemaID>>
       /\ UNCHANGED compatibilityLevels
       /\ ret' = [NoReturn EXCEPT !.op = "RegisterSchema", !.id = d.id, !.err = d.err,
                                 !.again = <<subject, schemaJSON>> \in DOMAIN okReg]
       /\ okReg' = IF d.err = Nil /\ <<subject, schemaJSON>> \notin DOMAIN okReg
                   THEN MapPut(okReg, <<subject, schemaJSON>>, d.id)
                   ELSE okReg
       /\ UNCHANGED concvars

RegisterSchema(subject, schemaJSON) ==
    LET d == RegisterDecision(subject, schemaJSON)
    IN /\ d.kind = "new" => nextSchemaID <= MaxRecords
       /\ IF d.kind = "new"
          THEN StoreNew(subject, schemaJSON)
          ELSE UNCHANGED <<schemas, subjectSchemas, nextSchemaID>>
       /\ UNCHANGED compatibilityLevels
       /\ ret' = [NoReturn EXCEPT !.op = "RegisterSchema", !.id = d.id, !.err = d.err,
                                 !.again = <<subject, schemaJSON>> \in DOMAIN okReg]
       /\ okReg' = IF d.err = Nil /\ <<subject, schemaJSON>> \notin DOMAIN okReg
                   THEN MapPut(okReg, <<subject, schemaJSON>>, d.id)
                   ELSE okReg
       /\ UNCHANGED concvars

\* A SetCompatibilityLevel that opens the subject's ledger.
SetCompatibilityLevelCreatesSubject(subject, level) ==
    /\ compatibilityLevels' = MapPut(compatibilityLevels, subject, level)
    /\ subjectSchemas' = MapPut(subjectSchemas, subject, Ledger(subject))
    /\ UNCHANGED <<schemas, nextSchemaID, okReg>>
    /\ ret' = [NoReturn EXCEPT !.op = "SetCompatibilityLevel"]
    /\ UNCHANGED concvars

\* One level for the whole registry instead of one per subject.
SetCompatibilityLevelGlobal(subject, level) ==
    /\ compatibilityLevels' = [s \in Subjects |-> level]
    /\ UNCHANGED <<schemas, subjectSchemas, nextSchemaID, okReg>>
    /\ ret' = [NoReturn EXCEPT !.op = "SetCompatibilityLevel"]
    /\ UNCHANGED concvars

SetCompatibilityLevel(subject, level) ==
    /\ compatibilityLevels' = MapPut(compatibilityLevels, subject, level)
    /\ UNCHANGED <<schemas, subjectSchemas, nextSchemaID, okReg>>
    /\ ret' = [NoReturn EXCEPT !.op = "SetCompatibilityLevel"]
    /\ UNCHANGED concvars

\* A dry run that writes the default level into the table when it finds none.
CheckCompatibilityCachesLevel(subject, schemaJSON) ==
    LET r == CheckCompatibilityResult(subject, schemaJSON)
    IN /\ ret' = [NoReturn EXCEPT !.op = "CheckCompatibility", !.ok = r.val, !.err = r.err]
       /\ compatibilityLevels' = MapPut(compatibilityLevels, subject, EffectiveLevel(subject))
       /\ UNCHANGED <<schemas, subjectSchemas, nextSchemaID, okReg, concvars>>

CheckCompatibility(subject, schemaJSON) ==
    LET r == CheckCompatibilityResult(subject, schemaJSON)
    IN /\ ret' = [NoReturn EXCEPT !.op = "CheckCompatibility", !.ok = r.val, !.err = r.err]
       /\ UNCHANGED <<regvars, okReg, concvars>>

GetSchema(schemaID) ==
    LET r == GetSchemaResult(schemaID)
    IN /\ ret' = [NoReturn EXCEPT !.op = "GetSchema", !.meta = r.val, !.err = r.err]
       /\ UNCHANGED <<regvars, okReg, concvars>>

GetSchemaVersion(subject, version) ==
    LET r == GetSchemaVersionResult(subject, version)
    IN /\ ret' = [NoReturn EXCEPT !.op = "GetSchemaVersion", !.meta = r.val, !.err = r.err]
       /\ UNCHANGED <<regvars, okReg, concvars>>

GetLatestSchema(subject) ==
    LET r == GetLatestSchemaResult(subject)
    IN /\ ret' = [NoReturn EXCEPT !.op = "GetLatestSchema", !.subject = subject,
                                 !.meta = r.val, !.err = r.err]
       /\ UNCHANGED <<regvars, okReg, concvars>>

ListSubjects ==
    /\ ret' = [NoReturn EXCEPT !.op = "ListSubjects", !.subjects = ListSubjectsResult]
    /\ UNCHANGED <<regvars, okReg, concvars>>

ListSchemaVersions(subject) ==
    LET r == ListSchemaVersionsResult(subject)
    IN /\ ret' = [NoReturn EXCEPT !.op = "ListSchemaVersions", !.subject = subject,
                                 !.versions = r.val, !.err = r.err]
       /\ UNCHANGED <<regvars, okReg, concvars>>

GetCompatibilityLevel(subject) ==
    /\ ret' = [NoReturn EXCEPT !.op = "GetCompatibilityLevel", !.subject = subject,
                              !.level = GetCompatibilityLevelResult(subject)]
    /\ UNCHANGED <<regvars, okReg, concvars>>

GetStats ==
    /\ ret' = [NoReturn EXCEPT !.op = "GetStats", !.stats = GetStatsResult]
    /\ UNCHANGED <<regvars, okReg, concvars>>

Next ==
    \/ \E c \in SchemaInputs : RegisterSchema(c[1], c[2])
    \/ \E c \in LevelInputs : SetCompatibilityLevel(c[1], c[2])
    \/ \E c \in SchemaInputs : CheckCompatibility(c[1], c[2])
    \/ \E schemaID \in 1..(MaxRecords + 1) : GetSchema(schemaID)
    \/ \E subject \in Subjects, version \in 0..(MaxRecords + 1) :
          GetSchemaVersion(subject, version)

Spec == Init /\ [][Next]_vars

\* One caller that registers, sets levels and reads through the subject-level
\* getters and GetStats.  The reads change no registry variable, so the
\* registries this caller reaches are the ones the caller of Spec reaches.
NextRead ==
    \/ \E c \in SchemaInputs : RegisterSchema(c[1], c[2])
    \/ \E c \in LevelInputs : SetCompatibilityLevel(c[1], c[2])
    \/ \E subject \in Subjects : GetLatestSchema(subject)
    \/ ListSubjects
    \/ \E subject \in Subjects : ListSchemaVersions(subject)
    \/ \E subject \in Subjects : GetCompatibilityLevel(subject)
    \/ GetStats

SpecRead == Init /\ [][NextRead]_vars

\* -------------------------------------------------------------- SpecConc
\* Concurrent callers.  Each method is split where another goroutine could
\* run if the lock did not stop it: at Lock/RLock, between the reads that
\* decide and the writes, and at the deferred Unlock/RUnlock.

ConcSchemaInputs == {"order"} \X {"orderA", "orderB", "orderD", "statusE"}
ConcCheckInputs == {"order"} \X {"statusE"}
ConcLevelInputs == {"order"} \X {CompatibilityNone}

\* sync.RWMutex: w is the caller that owns the writer side (0: nobody), held
\* says that it has waited out the readers, r counts each caller's read locks.
\* A lock whose writer side lets everybody in.
WriterFreeAlways == TRUE

WriterFree == mu.w = 0

\* A writer that does not wait for the readers inside.
ReadersGoneAlways == TRUE

ReadersGone == \A q \in Procs : mu.r[q] = 0

\* Registrations under way (bounds the records the callers can create).
InFlight == {q \in Procs : pc[q] \notin {"idle", "done"} /\ call[q].op = "RegisterSchema"}

CallRegisterSchema(p, subject, schemaJSON) ==
    /\ pc[p] = "idle"
    /\ nextSchemaID + Cardinality(InFlight) <= MaxRecords
    /\ call' = [call EXCEPT ![p] = [op |-> "RegisterSchema", subject |-> subject,
                                    schemaJSON |-> schemaJSON, level |-> ""]]
    /\ pc' = [pc EXCEPT ![p] = "Lock"]
    /\ UNCHANGED <<regvars, seqvars, mu, loc, res>>

CallSetCompatibilityLevel(p, subject, level) ==
    /\ pc[p] = "idle"
    /\ call' = [call EXCEPT ![p] = [op |-> "SetCompatibilityLevel", subject |-> subject,
                                    schemaJSON |-> "", level |-> level]]
    /\ pc' = [pc EXCEPT ![p] = "Lock"]
    /\ UNCHANGED <<regvars, seqvars, mu, loc, res>>

CallCheckCompatibility(p, subject, schemaJSON) ==
    /\ pc[p] = "idle"
    /\ call' = [call EXCEPT ![p] = [op |-> "CheckCompatibility", subject |-> subject,
                                    schemaJSON |-> schemaJSON, level |-> ""]]
    /\ pc' = [pc EXCEPT ![p] = "RLock"]
    /\ UNCHANGED <<regvars, seqvars, mu, loc, res>>

CallGetLatestSchema(p, subject) ==
    /\ pc[p] = "idle"
    /\ call' = [call EXCEPT ![p] = [op |-> "GetLatestSchema", subject |-> subject,
                                    schemaJSON |-> "", level |-> ""]]
    /\ pc' = [pc EXCEPT ![p] = "RLock"]
    /\ UNCHANGED <<regvars, seqvars, mu, loc, res>>

CallGetStats(p) ==
    /\ pc[p] = "idle"
    /\ call' = [call EXCEPT ![p] = [NoCall EXCEPT !.op = "GetStats"]]
    /\ pc' = [pc EXCEPT ![p] = "RLock"]
    /\ UNCHANGED <<regvars, seqvars, mu, loc, res>>

CallListSubjects(p) ==
    /\ pc[p] = "idle"
    /\ call' = [call EXCEPT ![p] = [NoCall EXCEPT !.op = "ListSubjects"]]
    /\ pc' = [pc EXCEPT ![p] = "ListRLock"]
    /\ UNCHANGED <<regvars, seqvars, mu, loc, res>>

\* sr.mu.Lock(), first half: take the writer side, which shuts out new readers.
Lock(p) ==
    /\ pc[p] = "Lock"
    /\ WriterFree
    /\ mu' = [mu EXCEPT !.w = p, !.held = FALSE]
    /\ pc' = [pc EXCEPT ![p] = "LockWait"]
    /\ UNCHANGED <<regvars, seqvars, call, loc, res>>

\* sr.mu.Lock(), second half: wait until the readers inside have left.
LockWait(p) ==
    /\ pc[p] = "LockWait"
    /\ ReadersGone
    /\ mu' = [mu EXCEPT !.held = TRUE]
    /\ pc' = [pc EXCEPT ![p] = IF call[p].op = "RegisterSchema"
                                THEN "RegCheck" ELSE "SetLevel"]
    /\ UNCHANGED <<regvars, seqvars, call, loc, res>>

\* Where a reader goes once it has the read lock.
AfterRLock(p) ==
    CASE call[p].op = "CheckCompatibility" -> "CheckRead"
      [] call[p].op = "GetLatestSchema" -> "LatestRead"
      [] call[p].op = "GetStats" -> "StatsRead"

\* A read lock that does not wait for the writer.
RLockNoWait(p) ==
    /\ pc[p] = "RLock"
    /\ mu' = [mu EXCEPT !.r[p] = @ + 1]
    /\ pc' = [pc EXCEPT ![p] = AfterRLock(p)]
    /\ UNCHANGED <<regvars, seqvars, call, loc, res>>

\* sr.mu.RLock(): blocks while a writer owns or waits for the lock.
RLock(p) ==
    /\ pc[p] = "RLock"
    /\ WriterFree
    /\ mu' = [mu EXCEPT !.r[p] = @ + 1]
    /\ pc' = [pc EXCEPT ![p] = AfterRLock(p)]
    /\ UNCHANGED <<regvars, seqvars, call, loc, res>>

\* RegisterSchema up to the compatibility check: parse, fingerprint, the
\* duplicate loop, checkCompatibility (whose reads are kept in loc).
RegCheck(p) ==
    LET subject == call[p].subject
        d == RegisterDecision(subject, call[p].schemaJSON)
        level == EffectiveLevel(subject)
        ids == Ledger(subject)
        read == [NoLocals EXCEPT
                   !.compatibilityLevel = level,
                   !.latestID = IF level = CompatibilityNone THEN -1
                                ELSE IF Len(ids) = 0 THEN 0 ELSE ids[Len(ids)]]
    IN /\ pc[p] = "RegCheck"
       /\ IF d.kind = "new"
          THEN /\ loc' = [loc EXCEPT ![p] = read]
               /\ pc' = [pc EXCEPT ![p] = "RegAssign"]
               /\ UNCHANGED res
          ELSE /\ res' = [res EXCEPT ![p] = [NoResult EXCEPT !.id = d.id, !.err = d.err]]
               /\ pc' = [pc EXCEPT ![p] = "Unlock"]
               /\ UNCHANGED loc
       /\ UNCHANGED <<regvars, seqvars, mu, call>>

\* schemaID := sr.nextSchemaID; sr.nextSchemaID++; version := len(...) + 1
RegAssign(p) ==
    /\ pc[p] = "RegAssign"
    /\ loc' = [loc EXCEPT ![p].schemaID = nextSchemaID,
                          ![p].version = NextVersion(call[p].subject)]
    /\ nextSchemaID' = nextSchemaID + 1
    /\ pc' = [pc EXCEPT ![p] = "RegStore"]
    /\ UNCHANGED <<schemas, subjectSchemas, compatibilityLevels, seqvars, mu, call, res>>

\* metadata := SchemaMetadata{...}; sr.schemas[schemaID] = metadata
RegStore(p) ==
    LET subject == call[p].subject
        schemaJSON == call[p].schemaJSON
    IN /\ pc[p] = "RegStore"
       /\ schemas' = MapPut(schemas, loc[p].schemaID,
                            NewMetadata(loc[p].schemaID, loc[p].version, subject,
                                        schemaJSON, Fingerprint(subject, schemaJSON)))
       /\ pc' = [pc EXCEPT ![p] = "RegAppend"]
       /\ UNCHANGED <<subjectSchemas, nextSchemaID, compatibilityLevels, seqvars,
                      mu, call, loc, res>>

\* sr.subjectSchemas[subject] = append(..., schemaID); return schemaID, nil
RegAppend(p) ==
    /\ pc[p] = "RegAppend"
    /\ subjectSchemas' = MapPut(subjectSchemas, call[p].subject,
                                Append(Ledger(call[p].subject), loc[p].schemaID))
    /\ res' = [res EXCEPT ![p] = [NoResult EXCEPT !.id = loc[p].schemaID]]
    /\ pc' = [pc EXCEPT ![p] = "Unlock"]
    /\ UNCHANGED <<schemas, nextSchemaID, compatibilityLevels, seqvars, mu, call, loc>>

\* sr.compatibilityLevels[subject] = level; return nil
SetLevel(p) ==
    /\ pc[p] = "SetLevel"
    /\ compatibilityLevels' = MapPut(compatibilityLevels, call[p].subject, call[p].level)
    /\ res' = [res EXCEPT ![p] = NoResult]
    /\ pc' = [pc EXCEPT ![p] = "Unlock"]
    /\ UNCHANGED <<schemas, subjectSchemas, nextSchemaID, seqvars, mu, call, loc>>

\* CheckCompatibility between RLock and RUnlock.
CheckRead(p) ==
    LET r == CheckCompatibilityResult(call[p].subject, call[p].schemaJSON)
    IN /\ pc[p] = "CheckRead"
       /\ res' = [res EXCEPT ![p] = [NoResult EXCEPT !.ok = r.val, !.err = r.err]]
       /\ pc' = [pc EXCEPT ![p] = "RUnlock"]
       /\ UNCHANGED <<regvars, seqvars, mu, call, loc>>

\* GetLatestSchema between RLock and RUnlock: a missing key of sr.schemas
\* reads as the zero SchemaMetadata.
LatestRead(p) ==
    LET schemaIDs == Ledger(call[p].subject)
        latestID == schemaIDs[Len(schemaIDs)]
    IN /\ pc[p] = "LatestRead"
       /\ res' = [res EXCEPT ![p] =
                    IF Len(schemaIDs) = 0 THEN [NoResult EXCEPT !.err = ErrNotFound]
                    ELSE [NoResult EXCEPT !.meta = IF latestID \in DOMAIN schemas
                                                  THEN schemas[latestID] ELSE ZeroMetadata]]
       /\ pc' = [pc EXCEPT ![p] = "RUnlock"]
       /\ UNCHANGED <<regvars, seqvars, mu, call, loc>>

\* GetStats: the entries of the stats literal before the call of ListSubjects.
StatsRead(p) ==
    /\ pc[p] = "StatsRead"
    /\ res' = [res EXCEPT ![p] = [NoResult EXCEPT
                  !.stats.total_schemas = Cardinality(DOMAIN schemas),
                  !.stats.total_subjects = Cardinality(DOMAIN subjectSchemas),
                  !.stats.next_schema_id = nextSchemaID]]
    /\ pc' = [pc EXCEPT ![p] = "ListRLock"]
    /\ UNCHANGED <<regvars, seqvars, mu, call, loc>>

\* ListSubjects' sr.mu.RLock(), which GetStats reaches with its own read lock
\* held: it blocks while a writer owns or waits for the lock.
ListRLock(p) ==
    /\ pc[p] = "ListRLock"
    /\ WriterFree
    /\ mu' = [mu EXCEPT !.r[p] = @ + 1]
    /\ pc' = [pc EXCEPT ![p] = "ListRead"]
    /\ UNCHANGED <<regvars, seqvars, call, loc, res>>

\* ListSubjects: the keys of sr.subjectSchemas, the deferred RUnlock and the
\* return, to GetStats or to the caller.
ListRead(p) ==
    /\ pc[p] = "ListRead"
    /\ res' = [res EXCEPT ![p].stats.subjects = DOMAIN subjectSchemas]
    /\ mu' = [mu EXCEPT !.r[p] = @ - 1]
    /\ pc' = [pc EXCEPT ![p] = IF call[p].op = "GetStats" THEN "StatsLoop" ELSE "done"]
    /\ UNCHANGED <<regvars, seqvars, call, loc>>

\* GetStats: the loop that counts each subject's versions.
StatsLoop(p) ==
    /\ pc[p] = "StatsLoop"
    /\ res' = [res EXCEPT ![p].stats.schemas_per_subject =
                  [s \in DOMAIN subjectSchemas |-> Len(subjectSchemas[s])]]
    /\ pc' = [pc EXCEPT ![p] = "RUnlock"]
    /\ UNCHANGED <<regvars, seqvars, mu, call, loc>>

\* defer sr.mu.Unlock(), and the return to the caller.
Unlock(p) ==
    /\ pc[p] = "Unlock"
    /\ mu' = [mu EXCEPT !.w = 0, !.held = FALSE]
    /\ pc' = [pc EXCEPT ![p] = "done"]
    /\ loc' = [loc EXCEPT ![p] = NoLocals]
    /\ UNCHANGED <<regvars, seqvars, call, res>>

\* defer sr.mu.RUnlock(), and the return to the caller.
RUnlock(p) ==
    /\ pc[p] = "RUnlock"
    /\ mu' = [mu EXCEPT !.r[p] = @ - 1]
    /\ pc' = [pc EXCEPT ![p] = "done"]
    /\ loc' = [loc EXCEPT ![p] = NoLocals]
    /\ UNCHANGED <<regvars, seqvars, call, res>>

NextConc ==
    \/ \E p \in Procs, c \in ConcSchemaInputs : CallRegisterSchema(p, c[1], c[2])
    \/ \E p \in Procs, c \in ConcLevelInputs : CallSetCompatibilityLevel(p, c[1], c[2])
    \/ \E p \in Procs, c \in ConcCheckInputs : CallCheckCompatibility(p, c[1], c[2])
    \/ \E p \in Procs, subject \in {"order"} : CallGetLatestSchema(p, subject)
    \/ \E p \in Procs : CallGetStats(p)
    \/ \E p \in Procs : CallListSubjects(p)
    \/ \E p \in Procs : Lock(p)
    \/ \E p \in Procs : LockWait(p)
    \/ \E p \in Procs : RLock(p)
    \/ \E p \in Procs : RegCheck(p)
    \/ \E p \in Procs : RegAssign(p)
    \/ \E p \in Procs : RegStore(p)
    \/ \E p \in Procs : RegAppend(p)
    \/ \E p \in Procs : SetLevel(p)
    \/ \E p \in Procs : CheckRead(p)
    \/ \E p \in Procs : LatestRead(p)
    \/ \E p \in Procs : StatsRead(p)
    \/ \E p \in Procs : ListRLock(p)
    \/ \E p \in Procs : ListRead(p)
    \/ \E p \in Procs : StatsLoop(p)
    \/ \E p \in Procs : Unlock(p)
    \/ \E p \in Procs : RUnlock(p)

\* The callers start on the registry NewSchemaRegistry returns.
InitConc ==
    /\ schemas = << >>
    /\ subjectSchemas = << >>
    /\ nextSchemaID = 1
    /\ compatibilityLevels = << >>
    /\ InitCallers

SpecConc == InitConc /\ [][NextConc]_vars

\* ================================================================ claims
\* Every (subject, i) position of a ledger.
Positions == {<<s, i>> \in Subjects \X (1..(MaxRecords + 2)) : i <= Len(Ledger(s))}
RecordAt(pos) == schemas[Ledger(pos[1])[pos[2]]]

\* C1  Idempotent re-registration: a RegisterSchema(S, X) that follows a
\* successful RegisterSchema(S, X), whatever ran in between, returns the id
\* the first one returned and leaves the schemas map, every ledger and
\* nextSchemaID as they were.
C1_IdempotentReRegistration ==
    [][\A c \in SchemaInputs :
          (c \in DOMAIN okReg /\ ret'.op = "RegisterSchema" /\ RegisterSchema(c[1], c[2]))
          => /\ ret'.err = Nil
             /\ ret'.id = okReg[c]
             /\ UNCHANGED <<schemas, subjectSchemas, nextSchemaID>>]_vars

\* C1 witness: a repeated registration has returned, after a registration on
\* the other subject.
C1_Witness ==
    /\ ret.op = "RegisterSchema" /\ ret.again /\ ret.err = Nil
    /\ \E s \in Subjects : Len(Ledger(s)) >= 1 /\ schemas[ret.id].Subject # s

\* C2  Monotonic versioning: the record at position i of a subject's ledger
\* has Version = i, so a subject's versions are exactly 1..len(ledger).
C2_MonotonicVersioning ==
    \A pos \in Positions : RecordAt(pos).Version = pos[2]

\* C2 witness: both subjects hold records and one of them holds two.
C2_Witness ==
    /\ Len(Ledger("order")) = 2
    /\ Len(Ledger("user")) = 1

\* C3  Global id uniqueness: no id stands at two positions of the ledgers,
\* and no two records carry the same ID.
C3_GlobalIDUniqueness ==
    /\ \A p1, p2 \in Positions :
          Ledger(p1[1])[p1[2]] = Ledger(p2[1])[p2[2]] => p1 = p2
    /\ \A i, j \in DOMAIN schemas : schemas[i].ID = schemas[j].ID => i = j

\* C3 witness: three records spread over the two subjects.
C3_Witness ==
    /\ Cardinality(DOMAIN schemas) = 3
    /\ Len(Ledger("order")) >= 1
    /\ Len(Ledger("user")) >= 1

\* C4  The id counter advances once per created record and never otherwise:
\* nextSchemaID = 1 + number of records, the ids handed out are exactly
\* 1..nextSchemaID-1, and a counter change creates exactly the record with
\* the old counter value as its id, which is larger than every earlier id.
C4_CounterAdvancesOncePerRecord ==
    [][/\ nextSchemaID' = 1 + Cardinality(DOMAIN schemas')
       /\ DOMAIN schemas' = 1..(nextSchemaID' - 1)
       /\ Cardinality(Positions') = nextSchemaID' - 1
       /\ nextSchemaID' # nextSchemaID =>
             /\ nextSchemaID' = nextSchemaID + 1
             /\ ret'.op = "RegisterSchema" /\ ret'.err = Nil /\ ret'.id = nextSchemaID
             /\ DOMAIN schemas' = DOMAIN schemas \cup {nextSchemaID}
             /\ \A i \in DOMAIN schemas : i < nextSchemaID
       /\ ret'.op # "RegisterSchema" \/ ret'.err # Nil \/ ret'.again
             => nextSchemaID' = nextSchemaID]_vars

\* C4 witness: a rejected registration has returned with two records stored.
C4_Witness ==
    /\ ret.op = "RegisterSchema" /\ ret.err = ErrCompat
    /\ nextSchemaID = 3

\* C5  Failure atomicity: a RegisterSchema that returns an error leaves the
\* schemas map, every ledger, nextSchemaID and the level table as they were,
\* and creates no subject.
C5_FailureAtomicity ==
    [][\A c \in SchemaInputs :
          (ret'.op = "RegisterSchema" /\ ret'.err # Nil /\ RegisterSchema(c[1], c[2]))
          => /\ UNCHANGED <<schemas, subjectSchemas, nextSchemaID, compatibilityLevels>>
             /\ DOMAIN subjectSchemas' = DOMAIN subjectSchemas]_vars

\* C5 witness: a registration on a subject without records failed to parse.
C5_Witness ==
    /\ ret.op = "RegisterSchema" /\ ret.err = ErrInvalid
    /\ "order" \notin DOMAIN subjectSchemas
    /\ "user" \in DOMAIN subjectSchemas

\* The registrations the callers of SpecConc run on subject s.
Registrants(s) ==
    {p \in Procs : call[p].op = "RegisterSchema" /\ call[p].subject = s}

\* C6  Concurrent registration safety: when all callers have returned, the
\* registrations on one subject that started without records had pairwise
\* distinct content, nobody set a level, and the level is NONE or the
\* candidates pass each other's compatibility checks, then every registration
\* succeeded, the ids are pairwise distinct and the subject holds one record
\* per registration.
C6_ConcurrentRegistrationSafety ==
    \A s \in Subjects :
       LET R == Registrants(s)
       IN (/\ \A p \in Procs : pc[p] = "done"
           /\ \A p \in Procs \ R : call[p].op = "CheckCompatibility"
           /\ Cardinality(R) >= 2
           /\ \A p \in R : Parse(call[p].schemaJSON).ok
           /\ \A p, q \in R : p # q => call[p].schemaJSON # call[q].schemaJSON
           /\ \/ EffectiveLevel(s) = CompatibilityNone
              \/ \A p, q \in R :
                    /\ checkForwardCompatibility(Parse(call[p].schemaJSON),
                                                 Parse(call[q].schemaJSON)) = Nil
                    /\ checkBackwardCompatibility(Parse(call[p].schemaJSON),
                                                  Parse(call[q].schemaJSON)) = Nil)
          => /\ \A p \in R : res[p].err = Nil
             /\ \A p, q \in R : p # q => res[p].id # res[q].id
             /\ Len(Ledger(s)) = Cardinality(R)
             /\ \A i \in 1..Len(Ledger(s)) : schemas[Ledger(s)[i]].Version = i

\* The id checkCompatibility would read as the latest of s now (0: none).
LatestID(s) == IF Len(Ledger(s)) = 0 THEN 0 ELSE Ledger(s)[Len(Ledger(s))]

\* C7  Linearized registration: from its compatibility check to its append a
\* registration still sees the level and the latest record that the check
\* read, the version it assigns is the latest version + 1, and no two
\* records of a subject carry the same version.
C7_LinearizedRegistration ==
    /\ \A p \in Procs :
          pc[p] \in {"RegAssign", "RegStore", "RegAppend"} =>
             /\ loc[p].compatibilityLevel = EffectiveLevel(call[p].subject)
             /\ loc[p].latestID # -1 => loc[p].latestID = LatestID(call[p].subject)
             /\ pc[p] \in {"RegStore", "RegAppend"} =>
                   loc[p].version = Len(Ledger(call[p].subject)) + 1
             /\ pc[p] = "RegStore" => loc[p].schemaID \notin DOMAIN schemas
    /\ \A s \in Subjects : \A i, j \in 1..Len(Ledger(s)) :
          schemas[Ledger(s)[i]].Version = schemas[Ledger(s)[j]].Version => i = j

\* C7 witness: a registration that was checked against version 1 is about to
\* append version 2 while a SetCompatibilityLevel and another RegisterSchema
\* on the same subject wait for the lock.
C7_Witness ==
    \E p, q, r \in Procs :
       /\ pc[p] = "RegStore" /\ loc[p].latestID = 1 /\ loc[p].version = 2
       /\ pc[q] = "Lock" /\ call[q].op = "SetCompatibilityLevel"
       /\ pc[r] = "done" /\ call[r].op = "RegisterSchema"
       /\ call[r].subject = call[p].subject

\* Field-level facts about two record schemas (old is the latest version).
RemovesRequiredField(old, new) ==
    \E f \in DOMAIN SchemaFields(old) :
       ~SchemaFields(old)[f] /\ f \notin DOMAIN SchemaFields(new)
OnlyAddsDefaultedFields(old, new) ==
    /\ DOMAIN SchemaFields(old) \subseteq DOMAIN SchemaFields(new)
    /\ DOMAIN SchemaFields(old) # DOMAIN SchemaFields(new)
    /\ \A f \in DOMAIN SchemaFields(new) \ DOMAIN SchemaFields(old) : SchemaFields(new)[f]

\* C8  Compatibility gating under BACKWARD: with level BACKWARD and a record
\* schema as latest version N, a candidate record schema (not a duplicate)
\* that removes a field without default is rejected and the subject stays at
\* version N; one that only adds fields with defaults becomes version N + 1.
C8_BackwardGating ==
    [][\A c \in SchemaInputs :
          LET s == c[1]
              n == Len(Ledger(s))
              latest == schemas[Ledger(s)[n]].SchemaJSON
          IN (/\ ret'.op = "RegisterSchema"
              /\ s \in DOMAIN compatibilityLevels
              /\ compatibilityLevels[s] = CompatibilityBackward
              /\ n >= 1
              /\ Parse(c[2]).ok /\ Parse(c[2]).type = "record"
              /\ Parse(latest).type = "record"
              /\ FindFingerprint(s, Fingerprint(s, c[2])) = 0
              /\ RegisterSchema(s, c[2]))
             => /\ RemovesRequiredField(latest, c[2]) =>
                      ret'.err = ErrCompat /\ Len(Ledger(s)') = n
                /\ OnlyAddsDefaultedFields(latest, c[2]) =>
                      /\ ret'.err = Nil /\ Len(Ledger(s)') = n + 1
                      /\ schemas'[ret'.id].Version = n + 1]_vars

\* C9  First-registration exemption: on a subject without records, whatever
\* its level (NONE, BACKWARD, FORWARD, FULL or unset), RegisterSchema of a
\* parseable source succeeds and creates version 1, and CheckCompatibility
\* returns true.
C9_FirstRegistrationExemption ==
    [][\A c \in SchemaInputs :
          (Parse(c[2]).ok /\ Len(Ledger(c[1])) = 0) =>
             /\ (ret'.op = "RegisterSchema" /\ RegisterSchema(c[1], c[2])) =>
                   /\ ret'.err = Nil
                   /\ Ledger(c[1])' = <<ret'.id>>
                   /\ schemas'[ret'.id].Version = 1
                   /\ schemas'[ret'.id].Subject = c[1]
             /\ (ret'.op = "CheckCompatibility" /\ CheckCompatibility(c[1], c[2])) =>
                   ret'.ok /\ ret'.err = Nil
             /\ CheckCompatibilityResult(c[1], c[2]) = [val |-> TRUE, err |-> Nil]]_vars

\* C9 witness: the first successful registration of the registry has returned
\* version 1 on a subject whose level had been set to FULL.
C9_Witness ==
    /\ ret.op = "RegisterSchema" /\ ret.err = Nil /\ ~ret.again
    /\ Cardinality(DOMAIN okReg) = 1
    /\ "order" \in DOMAIN compatibilityLevels
    /\ compatibilityLevels["order"] = CompatibilityFull
    /\ Ledger("order") = <<ret.id>>

\* C10  Policy independence: SetCompatibilityLevel(S, level) sets the level
\* entry of S and nothing else: the schemas map, every ledger, nextSchemaID
\* and the other subjects' entries stay, and GetSchema / GetSchemaVersion
\* return after the call what they returned before it.
C10_PolicyIndependence ==
    [][\A c \in LevelInputs :
          (ret'.op = "SetCompatibilityLevel" /\ SetCompatibilityLevel(c[1], c[2])) =>
             /\ UNCHANGED <<schemas, subjectSchemas, nextSchemaID>>
             /\ compatibilityLevels'[c[1]] = c[2]
             /\ DOMAIN compatibilityLevels' = DOMAIN compatibilityLevels \cup {c[1]}
             /\ \A s \in DOMAIN compatibilityLevels \ {c[1]} :
                   compatibilityLevels'[s] = compatibilityLevels[s]
             /\ \A id \in 0..(MaxRecords + 1) : GetSchemaResult(id)' = GetSchemaResult(id)
             /\ \A s \in Subjects, v \in 0..(MaxRecords + 1) :
                   GetSchemaVersionResult(s, v)' = GetSchemaVersionResult(s, v)]_vars

\* C10 witness: a level that rejects type changes has been set on a subject
\* whose versions 1 and 2 have different types.
C10_Witness ==
    /\ ret.op = "SetCompatibilityLevel"
    /\ "order" \in DOMAIN compatibilityLevels
    /\ compatibilityLevels["order"] = CompatibilityFull
    /\ Len(Ledger("order")) >= 2
    /\ Parse(schemas[Ledger("order")[1]].SchemaJSON).type
          # Parse(schemas[Ledger("order")[2]].SchemaJSON).type
    /\ Len(Ledger("user")) >= 1

\* C11  Within a subject no two records carry the same Fingerprint.
C11_OneRecordPerFingerprint ==
    \A p1, p2 \in Positions :
       (p1[1] = p2[1] /\ RecordAt(p1).Fingerprint = RecordAt(p2).Fingerprint) => p1 = p2

\* C11 witness: a subject holds three records and a registration on it has
\* returned the id of an earlier version.
C11_Witness ==
    /\ Len(Ledger("order")) = 3
    /\ ret.op = "RegisterSchema" /\ ret.err = Nil /\ ret.again
    /\ ret.id = Ledger("order")[1]

\* Two sources have the same content when their canonical forms are equal.
SameContent(x, y) == Parse(x).str = Parse(y).str

\* C12  Duplicate detection matches only identical schemas: a RegisterSchema
\* that returns the id of an existing record was given that record's content,
\* and a parseable source whose content differs from every record of the
\* subject and passes the compatibility check becomes a new version with a
\* fresh id.
C12_DuplicatesAreIdentical ==
    [][\A c \in SchemaInputs :
          LET s == c[1]
              n == Len(Ledger(s))
          IN (ret'.op = "RegisterSchema" /\ Parse(c[2]).ok /\ RegisterSchema(s, c[2]))
             => /\ (ret'.err = Nil /\ ret'.id \in DOMAIN schemas) =>
                      SameContent(schemas[ret'.id].SchemaJSON, c[2])
                /\ (/\ \A i \in 1..n : ~SameContent(schemas[Ledger(s)[i]].SchemaJSON, c[2])
                    /\ checkCompatibility(s, Parse(c[2])) = Nil) =>
                      /\ ret'.err = Nil /\ ret'.id = nextSchemaID
                      /\ Ledger(s)' = Append(Ledger(s), ret'.id)
                      /\ schemas'[ret'.id].Version = n + 1]_vars

\* C13  Semantic duplicates are recognized: a RegisterSchema whose source has
\* the canonical form of a record of the subject (another text, the same
\* schema) has that record's fingerprint, returns that record's id and
\* creates no version.
C13_SemanticDuplicates ==
    [][\A c \in SchemaInputs : \A i \in 1..Len(Ledger(c[1])) :
          LET rec == schemas[Ledger(c[1])[i]]
          IN (/\ ret'.op = "RegisterSchema" /\ Parse(c[2]).ok
              /\ SameContent(rec.SchemaJSON, c[2])
              /\ RegisterSchema(c[1], c[2]))
             => /\ Fingerprint(c[1], c[2]) = rec.Fingerprint
                /\ ret'.err = Nil /\ ret'.id = rec.ID
                /\ UNCHANGED <<schemas, subjectSchemas, nextSchemaID>>]_vars

\* C14  CheckCompatibility is a dry run: whatever the subject and the source,
\* the call leaves the schemas map, the ledgers, nextSchemaID and the level
\* table as they were.
C14_CheckCompatibilityDryRun ==
    [][\A c \in SchemaInputs :
          (ret'.op = "CheckCompatibility" /\ CheckCompatibility(c[1], c[2]))
          => UNCHANGED <<schemas, subjectSchemas, nextSchemaID, compatibilityLevels>>]_vars

\* C14 witness: CheckCompatibility has returned false on a subject with a
\* record and no level entry.
C14_Witness ==
    /\ ret.op = "CheckCompatibility" /\ ~ret.ok /\ ret.err = Nil
    /\ Len(Ledger("order")) >= 1
    /\ "order" \notin DOMAIN compatibilityLevels

\* C15  CheckCompatibility and RegisterSchema never diverge: in one state, for
\* a parseable source, CheckCompatibility returns true exactly when
\* RegisterSchema would return an id without error.
C15_CheckAgreesWithRegister ==
    \A c \in SchemaInputs :
       Parse(c[2]).ok =>
          (CheckCompatibilityResult(c[1], c[2]).val
             <=> RegisterDecision(c[1], c[2]).err = Nil)

\* A ledger that extends another.
IsPrefix(a, b) == Len(a) <= Len(b) /\ \A i \in 1..Len(a) : a[i] = b[i]

\* C16  Append-only ledger: a step never changes or removes a stored record
\* and every ledger of the next state extends the ledger it was.
C16_AppendOnly ==
    [][/\ \A i \in DOMAIN schemas : i \in DOMAIN schemas' /\ schemas'[i] = schemas[i]
       /\ \A s \in DOMAIN subjectSchemas :
             s \in DOMAIN subjectSchemas' /\ IsPrefix(subjectSchemas[s], subjectSchemas'[s])]_vars

\* C16 witness: a second version has been appended to a subject after its
\* level was changed and the other subject holds a record.
C16_Witness ==
    /\ ret.op = "RegisterSchema" /\ ret.err = Nil /\ ~ret.again
    /\ Len(Ledger("order")) = 2 /\ Ledger("order")[2] = ret.id
    /\ Len(Ledger("user")) = 1
    /\ "order" \in DOMAIN compatibilityLevels

\* C20  Level NONE is always compatible: on a subject whose level is NONE,
\* CheckCompatibility returns true and RegisterSchema succeeds for every
\* parseable source.
C20_NoneAlwaysCompatible ==
    \A c \in SchemaInputs :
       (/\ Parse(c[2]).ok
        /\ c[1] \in DOMAIN compatibilityLevels
        /\ compatibilityLevels[c[1]] = CompatibilityNone)
       => /\ CheckCompatibilityResult(c[1], c[2]) = [val |-> TRUE, err |-> Nil]
          /\ RegisterDecision(c[1], c[2]).err = Nil

\* C20 witness: under level NONE an enum schema has become version 2 of a
\* subject whose version 1 is a record schema.
C20_Witness ==
    /\ ret.op = "RegisterSchema" /\ ret.err = Nil /\ ~ret.again
    /\ "order" \in DOMAIN compatibilityLevels
    /\ compatibilityLevels["order"] = CompatibilityNone
    /\ Len(Ledger("order")) = 2 /\ Ledger("order")[2] = ret.id
    /\ Parse(schemas[Ledger("order")[1]].SchemaJSON).type = "record"
    /\ Parse(schemas[ret.id].SchemaJSON).type = "enum"

\* The callers' steps other than the start of a call.
Step ==
    \E p \in Procs :
       \/ Lock(p) \/ LockWait(p) \/ RLock(p)
       \/ RegCheck(p) \/ RegAssign(p) \/ RegStore(p) \/ RegAppend(p) \/ SetLevel(p)
       \/ CheckRead(p) \/ LatestRead(p)
       \/ StatsRead(p) \/ ListRLock(p) \/ ListRead(p) \/ StatsLoop(p)
       \/ Unlock(p) \/ RUnlock(p)

\* C17  Every registry operation completes: no state is reachable in which
\* calls have started and none of them can take a step, that is, in which the
\* callers wait on the readers-writer lock forever.
C17_NoCallerWaitsForever ==
    (\E p \in Procs : pc[p] \notin {"idle", "done"}) => ENABLED Step

\* The callers inside a write-locked and a read-locked critical section.
InsideWrite ==
    {p \in Procs : pc[p] \in {"RegCheck", "RegAssign", "RegStore", "RegAppend",
                              "SetLevel", "Unlock"}}
InsideRead ==
    {p \in Procs : pc[p] \in {"CheckRead", "LatestRead", "StatsRead", "ListRLock",
                              "ListRead", "StatsLoop", "RUnlock"}
                   /\ mu.r[p] > 0}

\* C18  Readers-writer exclusion: while a RegisterSchema or a
\* SetCompatibilityLevel is inside its critical section no other caller,
\* reader or writer, is inside its own.
C18_ReadersWriterExclusion ==
    InsideWrite # {} => (Cardinality(InsideWrite) = 1 /\ InsideRead = {})

\* C18 witness: a CheckCompatibility and a GetLatestSchema are inside their
\* critical sections at once while a RegisterSchema waits for them to leave.
C18_Witness ==
    \E p, q, r \in Procs :
       /\ pc[p] = "CheckRead" /\ pc[q] = "LatestRead"
       /\ {p, q} \subseteq InsideRead
       /\ pc[r] = "LockWait" /\ call[r].op = "RegisterSchema"

\* The registry between two registrations: every id below nextSchemaID is
\* stored, every stored record is in its subject's ledger at its version and
\* every ledger entry is a stored record.
Committed ==
    /\ DOMAIN schemas = 1..(nextSchemaID - 1)
    /\ \A i \in DOMAIN schemas :
          /\ schemas[i].Version \in 1..Len(Ledger(schemas[i].Subject))
          /\ Ledger(schemas[i].Subject)[schemas[i].Version] = i
    /\ \A s \in DOMAIN subjectSchemas : \A i \in 1..Len(subjectSchemas[s]) :
          subjectSchemas[s][i] \in DOMAIN schemas

\* Sum of the version counts GetStats returns.
RECURSIVE SumCounts(_, _)
SumCounts(f, S) ==
    IF S = {} THEN 0
    ELSE LET s == CHOOSE x \in S : TRUE IN f[s] + SumCounts(f, S \ {s})

\* C19  No partial mutation is observable: a caller that holds the read lock
\* finds the registry as it is between two registrations, the statistics
\* GetStats returns describe such a state (the next id is the record count
\* + 1, the version counts add up to the record count, one count per listed
\* subject) and GetLatestSchema returns a stored record of its subject, never
\* the zero record for an id that is in the ledger and not yet in the map.
C19_NoPartialMutationObserved ==
    \A p \in Procs :
       /\ mu.r[p] > 0 => Committed
       /\ (call[p].op = "GetStats" /\ pc[p] \in {"RUnlock", "done"}) =>
             LET st == res[p].stats
             IN /\ st.next_schema_id = st.total_schemas + 1
                /\ DOMAIN st.schemas_per_subject = st.subjects
                /\ Cardinality(st.subjects) = st.total_subjects
                /\ SumCounts(st.schemas_per_subject, st.subjects) = st.total_schemas
       /\ (call[p].op = "GetLatestSchema" /\ pc[p] \in {"RUnlock", "done"}
           /\ res[p].err = Nil) =>
             /\ res[p].meta.ID \in DOMAIN schemas
             /\ res[p].meta = schemas[res[p].meta.ID]
             /\ res[p].meta.Subject = call[p].subject

\* C19 witness: GetStats has returned the statistics of the registry without
\* records, and a registration, whose record is in the schemas map and not
\* yet in the ledger, runs while a GetLatestSchema waits for the lock.
C19_Witness ==
    \E p, q, r \in Procs :
       /\ call[p].op = "GetStats" /\ pc[p] = "done"
       /\ res[p].stats.total_schemas = 0 /\ res[p].stats.next_schema_id = 1
       /\ pc[q] = "RegAppend" /\ loc[q].schemaID = 1 /\ ~Committed
       /\ call[r].op = "GetLatestSchema" /\ pc[r] = "RLock"

\* C21  Default level is BACKWARD: for a subject without level entry
\* GetCompatibilityLevel returns BACKWARD, and a SetCompatibilityLevel of
\* BACKWARD on it changes no decision of RegisterSchema and no result of
\* CheckCompatibility on that subject.
C21_DefaultLevelBackward ==
    [][/\ \A s \in Subjects :
             s \notin DOMAIN compatibilityLevels =>
                GetCompatibilityLevelResult(s) = CompatibilityBackward
       /\ \A s \in Subjects :
             (/\ ret'.op = "GetCompatibilityLevel"
              /\ s \notin DOMAIN compatibilityLevels
              /\ GetCompatibilityLevel(s)) => ret'.level = CompatibilityBackward
       /\ \A c \in LevelInputs :
             (/\ ret'.op = "SetCompatibilityLevel"
              /\ c[2] = CompatibilityBackward
              /\ c[1] \notin DOMAIN compatibilityLevels
              /\ SetCompatibilityLevel(c[1], c[2]))
             => \A d \in SchemaInputs :
                   d[1] = c[1] =>
                      /\ RegisterDecision(d[1], d[2])' = RegisterDecision(d[1], d[2])
                      /\ CheckCompatibilityResult(d[1], d[2])' =
                            CheckCompatibilityResult(d[1], d[2])]_vars

\* C21 witness: GetCompatibilityLevel has returned BACKWARD for a subject
\* that holds a record schema and has no level entry, where an enum candidate
\* is rejected.
C21_Witness ==
    /\ ret.op = "GetCompatibilityLevel" /\ ret.subject = "order"
    /\ ret.level = CompatibilityBackward
    /\ "order" \notin DOMAIN compatibilityLevels
    /\ Len(Ledger("order")) = 1
    /\ RegisterDecision("order", "statusE").err = ErrCompat

\* C22  GetLatestSchema(S) returns the record of S with the highest version,
\* whose Version is the length of S's ledger and whose id is the greatest of
\* S's records (the most recent one created), and it returns the not-found
\* error exactly when S has no record.
C22_LatestIsHighestVersion ==
    \A s \in Subjects :
       LET r == GetLatestSchemaResult(s)
           n == Len(Ledger(s))
       IN /\ r.err = (IF n = 0 THEN ErrNotFound ELSE Nil)
          /\ n = 0 => r.val = ZeroMetadata
          /\ n > 0 =>
                /\ r.val.Subject = s /\ r.val.Version = n
                /\ r.val.ID \in DOMAIN schemas /\ schemas[r.val.ID] = r.val
                /\ \A i \in DOMAIN schemas :
                      schemas[i].Subject = s =>
                         (i <= r.val.ID /\ schemas[i].Version <= r.val.Version)
          /\ (ret.op = "GetLatestSchema" /\ ret.subject = s) =>
                (ret.meta = r.val /\ ret.err = r.err)

\* C22 witness: GetLatestSchema has returned version 2 of a subject, the
\* record with id 3, registered after a record of the other subject.
C22_Witness ==
    /\ ret.op = "GetLatestSchema" /\ ret.subject = "order" /\ ret.err = Nil
    /\ ret.meta.Version = 2 /\ ret.meta.ID = 3
    /\ Ledger("order") = <<1, 3>> /\ Ledger("user") = <<2>>

\* The subjects on which a RegisterSchema has succeeded.
Registered == {s \in Subjects : \E k \in DOMAIN okReg : k[1] = s}

\* C24  Subject lifecycle: ListSubjects returns, and ListSchemaVersions knows,
\* exactly the subjects on which a RegisterSchema has succeeded; a failed
\* registration and a SetCompatibilityLevel create no subject, and no step
\* removes one.
C24_SubjectLifecycle ==
    [][/\ ListSubjectsResult = Registered
       /\ \A s \in Subjects : ListSchemaVersionsResult(s).err = Nil <=> s \in Registered
       /\ ret.op = "ListSubjects" => ret.subjects = Registered
       /\ ListSubjectsResult \subseteq ListSubjectsResult'
       /\ (ret'.op = "SetCompatibilityLevel"
           \/ (ret'.op = "RegisterSchema" /\ ret'.err # Nil)) =>
             ListSubjectsResult' = ListSubjectsResult]_vars

\* C24 witness: ListSubjects has returned one subject while the other name
\* has a level entry and no successful registration.
C24_Witness ==
    /\ ret.op = "ListSubjects" /\ ret.subjects = {"user"}
    /\ "order" \in DOMAIN compatibilityLevels
    /\ "order" \notin Registered

\* C25  ListSchemaVersions(S) returns 1, 2, ..., N for a subject with N
\* records and the not-found error for a subject without successful
\* registration.
C25_VersionsAscending ==
    \A s \in Subjects :
       LET r == ListSchemaVersionsResult(s)
       IN /\ s \in Registered =>
                /\ r.err = Nil
                /\ Len(r.val) = Len(Ledger(s)) /\ Len(r.val) >= 1
                /\ \A i \in 1..Len(r.val) : r.val[i] = i
          /\ s \notin Registered => (r.err = ErrNotFound /\ r.val = << >>)
          /\ (ret.op = "ListSchemaVersions" /\ ret.subject = s) =>
                (ret.versions = r.val /\ ret.err = r.err)

\* C25 witness: ListSchemaVersions has returned 1, 2 for a subject whose
\* ledger holds the ids 1 and 3.
C25_Witness ==
    /\ ret.op = "ListSchemaVersions" /\ ret.subject = "order" /\ ret.err = Nil
    /\ ret.versions = <<1, 2>>
    /\ Ledger("order") = <<1, 3>>

\* The statistics st describe one state of a registry.
StatsConsistent(st) ==
    /\ st.total_schemas = SumCounts(st.schemas_per_subject, DOMAIN st.schemas_per_subject)
    /\ st.total_schemas = st.next_schema_id - 1
    /\ st.total_subjects = Cardinality(DOMAIN st.schemas_per_subject)
    /\ st.total_subjects = Cardinality(st.subjects)

\* C26  Statistics are consistent: in every state the statistics GetStats
\* would report have total_schemas equal to the sum of the version counts and
\* to next_schema_id - 1, and total_subjects equal to the number of counts
\* and of listed subjects; a GetStats returns these statistics and changes
\* no state.
C26_StatsConsistent ==
    [][/\ StatsConsistent(GetStatsResult)
       /\ (ret'.op = "GetStats" /\ GetStats) =>
             /\ ret'.stats = GetStatsResult /\ StatsConsistent(ret'.stats)
             /\ UNCHANGED <<schemas, subjectSchemas, nextSchemaID, compatibilityLevels>>]_vars

\* C26 witness: GetStats has reported three records in two subjects of a
\* registry with one level entry.
C26_Witness ==
    /\ ret.op = "GetStats"
    /\ ret.stats.total_schemas = 3 /\ ret.stats.total_subjects = 2
    /\ ret.stats.schemas_per_subject["order"] = 2
    /\ Cardinality(DOMAIN compatibilityLevels) = 1

\* C23  GetSchemaVersion(S, v) returns the record with Subject S and Version v
\* for every v from 1 to the length of S's ledger, and an error with the zero
\* record for an unknown subject, v < 1 or v beyond the ledger; it reads the
\* ledger only at positions the ledger has.
C23_VersionLookup ==
    \A s \in Subjects \cup {"payment"} : \A v \in (-1)..(MaxRecords + 1) :
       LET r == GetSchemaVersionResult(s, v)
       IN /\ (v >= 1 /\ v <= Len(Ledger(s))) =>
                /\ r.err = Nil
                /\ r.val.Subject = s /\ r.val.Version = v
                /\ r.val.ID = Ledger(s)[v]
          /\ (s \notin DOMAIN subjectSchemas \/ v < 1 \/ v > Len(Ledger(s))) =>
                (r.err = ErrNotFound /\ r.val = ZeroMetadata)
          /\ r.err = Nil => v \in DOMAIN Ledger(s)
          /\ ret.op = "GetSchemaVersion" =>
                \/ ret.err = ErrNotFound /\ ret.meta = ZeroMetadata
                \/ /\ ret.err = Nil
                   /\ ret.meta = GetSchemaVersionResult(ret.meta.Subject, ret.meta.Version).val

\* C23 witness: GetSchemaVersion has returned version 1 of a subject with two
\* versions, the record with id 2.
C23_Witness ==
    /\ ret.op = "GetSchemaVersion" /\ ret.err = Nil
    /\ ret.meta.Subject = "order" /\ ret.meta.Version = 1 /\ ret.meta.ID = 2
    /\ Len(Ledger("order")) = 2

\* C27  Fingerprint match bypasses the compatibility check and looks at the
\* whole history: a RegisterSchema of a parseable source whose fingerprint is
\* that of any version k of the subject returns the id of version k without
\* error and creates no version, whatever the subject's level and latest
\* version are.
C27_FingerprintBypassesCheck ==
    [][\A c \in SchemaInputs : \A k \in 1..Len(Ledger(c[1])) :
          (/\ ret'.op = "RegisterSchema" /\ Parse(c[2]).ok
           /\ schemas[Ledger(c[1])[k]].Fingerprint = Fingerprint(c[1], c[2])
           /\ RegisterSchema(c[1], c[2]))
          => /\ ret'.err = Nil /\ ret'.id = Ledger(c[1])[k]
             /\ UNCHANGED <<schemas, subjectSchemas, nextSchemaID>>]_vars

\* C27 witness: under level BACKWARD a RegisterSchema has returned the id of
\* version 1, a record schema that the check would reject against the enum
\* schema that is the latest version.
C27_Witness ==
    /\ ret.op = "RegisterSchema" /\ ret.err = Nil
    /\ Len(Ledger("order")) = 2 /\ ret.id = Ledger("order")[1]
    /\ EffectiveLevel("order") = CompatibilityBackward
    /\ checkCompatibility("order", Parse(schemas[ret.id].SchemaJSON)) = ErrTypes

\* C28  Type-mismatch rejection: on a subject with a record whose level is
\* BACKWARD, FORWARD, FULL or unset, a parseable candidate whose type differs
\* from the latest record's and whose fingerprint matches no record is
\* rejected by RegisterSchema and makes CheckCompatibility return false; a
\* candidate of the same type is accepted by both.
C28_TypeMismatchRejected ==
    \A c \in SchemaInputs :
       LET s == c[1]
           n == Len(Ledger(s))
       IN (Parse(c[2]).ok /\ n >= 1 /\ EffectiveLevel(s) # CompatibilityNone) =>
             LET latest == Parse(schemas[Ledger(s)[n]].SchemaJSON)
             IN /\ (/\ Parse(c[2]).type # latest.type
                    /\ FindFingerprint(s, Fingerprint(s, c[2])) = 0) =>
                      /\ RegisterDecision(s, c[2]).kind = "error"
                      /\ RegisterDecision(s, c[2]).err = ErrCompat
                      /\ CheckCompatibilityResult(s, c[2]) = [val |-> FALSE, err |-> Nil]
                /\ Parse(c[2]).type = latest.type =>
                      /\ RegisterDecision(s, c[2]).err = Nil
                      /\ CheckCompatibilityResult(s, c[2]) = [val |-> TRUE, err |-> Nil]

\* C28 witness: under level FULL a RegisterSchema on a subject with one
\* record has been rejected by the compatibility check.
C28_Witness ==
    /\ ret.op = "RegisterSchema" /\ ret.err = ErrCompat
    /\ EffectiveLevel("order") = CompatibilityFull
    /\ Len(Ledger("order")) = 1

\* C29  No deduplication across subjects: a RegisterSchema of a parseable
\* source on a subject without records creates a record with a fresh id and
\* Version 1 in that subject, whatever the other subjects hold, and a
\* registration on one subject leaves every other ledger as it was.
C29_NoCrossSubjectDedup ==
    [][\A c \in SchemaInputs :
          (ret'.op = "RegisterSchema" /\ RegisterSchema(c[1], c[2])) =>
             /\ (Parse(c[2]).ok /\ Len(Ledger(c[1])) = 0) =>
                   /\ ret'.err = Nil
                   /\ ret'.id = nextSchemaID /\ ret'.id \notin DOMAIN schemas
                   /\ Ledger(c[1])' = <<ret'.id>>
                   /\ schemas'[ret'.id].Subject = c[1]
                   /\ schemas'[ret'.id].Version = 1
                   /\ schemas'[ret'.id].SchemaJSON = c[2]
             /\ \A s \in Subjects \ {c[1]} : Ledger(s)' = Ledger(s)]_vars

\* C29 witness: one source is version 1 of both subjects, under the ids 1
\* and 2.
C29_Witness ==
    /\ ret.op = "RegisterSchema" /\ ret.err = Nil /\ ret.id = 2
    /\ Ledger("order") = <<1>> /\ Ledger("user") = <<2>>
    /\ schemas[1].SchemaJSON = schemas[2].SchemaJSON
    /\ schemas[1].Version = 1 /\ schemas[2].Version = 1

\* The ids RegisterSchema has returned.
ReturnedIDs == {okReg[k] : k \in DOMAIN okReg}

\* C30  Cross-structure consistency: every ledger entry is a key of the
\* schemas map, every key occurs in exactly one ledger exactly once, the
\* record under key i has ID i and the Subject of that ledger, the ids of a
\* ledger increase with the version, and GetSchema succeeds exactly for the
\* ids RegisterSchema has returned.
C30_CrossStructureConsistency ==
    /\ \A pos \in Positions : Ledger(pos[1])[pos[2]] \in DOMAIN schemas
    /\ \A i \in DOMAIN schemas :
          /\ Cardinality({pos \in Positions : Ledger(pos[1])[pos[2]] = i}) = 1
          /\ schemas[i].ID = i
          /\ \E v \in 1..Len(Ledger(schemas[i].Subject)) : Ledger(schemas[i].Subject)[v] = i
    /\ \A s \in Subjects : \A v, w \in 1..Len(Ledger(s)) :
          v < w => Ledger(s)[v] < Ledger(s)[w]
    /\ \A i \in 0..(MaxRecords + 1) : GetSchemaResult(i).err = Nil <=> i \in ReturnedIDs
    /\ (ret.op = "GetSchema" /\ ret.err = Nil) => ret.meta.ID \in ReturnedIDs

\* C30 witness: GetSchema has returned the record with id 3, version 2 of a
\* subject whose version 1 has id 1, while id 2 is in the other ledger.
C30_Witness ==
    /\ ret.op = "GetSchema" /\ ret.err = Nil /\ ret.meta.ID = 3
    /\ Ledger("order") = <<1, 3>> /\ Ledger("user") = <<2>>
    /\ GetSchemaResult(4).err = ErrNotFound

====
